---------------------------- MODULE Spec2Model ----------------------------
(***************************************************************************)
(* A model of the aiagent execution graph.  The repository holds two       *)
(* builds of runLangGraph:                                                 *)
(*   - the one-pass graph (cmd/aiagent/main.go with cmd/aiagent/nodes):    *)
(*     classifier -> bash -> validation -> formatter -> terminal, where    *)
(*     the validator checks, confirms, executes and retries a command;     *)
(*   - the task-tracking graph (the main package that imports pkg/nodes):  *)
(*     every handler routes back to the classifier, which verifies the     *)
(*     current task, appends it to the history and picks the next node.    *)
(* The variable program says which build a behaviour is a run of.          *)
(* Texts are TLA+ strings; Len, \o, SubSeq, Head and Tail act on them.      *)
(***************************************************************************)
EXTENDS Integers, Sequences, FiniteSets, TLC

(***************************************************************************)
(* Bounds of the model.                                                    *)
(***************************************************************************)
\* accepted alternatives (recursive calls of ValidationNode.Process) per run
MaxRetry == 1
\* loop iterations of runLangGraph in the task-tracking graph
MaxDispatch == 5
\* fragments of shell diagnostics joined into one failure text
MaxFragments == 2

(***************************************************************************)
(* Text helpers: package strings.                                          *)
(***************************************************************************)
CharAt(s, i) == IF i >= 1 /\ i <= Len(s) THEN SubSeq(s, i, i) ELSE ""

Slice(s, i, n) == IF i >= 1 /\ i + n - 1 <= Len(s) THEN SubSeq(s, i, i + n - 1) ELSE ""

\* unicode.ToLower on the ASCII letters
LowerTable ==
  [A |-> "a", B |-> "b", C |-> "c", D |-> "d", E |-> "e", F |-> "f", G |-> "g",
   H |-> "h", I |-> "i", J |-> "j", K |-> "k", L |-> "l", M |-> "m", N |-> "n",
   O |-> "o", P |-> "p", Q |-> "q", R |-> "r", S |-> "s", T |-> "t", U |-> "u",
   V |-> "v", W |-> "w", X |-> "x", Y |-> "y", Z |-> "z"]

LowerChar(c) == IF c \in DOMAIN LowerTable THEN LowerTable[c] ELSE c

RECURSIVE ToLower(_)
ToLower(s) == IF s = "" THEN "" ELSE LowerChar(Head(s)) \o ToLower(Tail(s))

Contains(s, p) == \E i \in 1..(Len(s) - Len(p) + 1) : Slice(s, i, Len(p)) = p

HasPrefix(s, p) == Len(s) >= Len(p) /\ Slice(s, 1, Len(p)) = p

IsSpace(c) == c \in {" ", "\t", "\n", "\r", "\f"}

RECURSIVE TrimLeft(_)
TrimLeft(s) == IF s # "" /\ IsSpace(Head(s)) THEN TrimLeft(Tail(s)) ELSE s

RECURSIVE TrimRight(_)
TrimRight(s) ==
  IF s # "" /\ IsSpace(CharAt(s, Len(s))) THEN TrimRight(SubSeq(s, 1, Len(s) - 1)) ELSE s

TrimSpace(s) == TrimRight(TrimLeft(s))

(***************************************************************************)
(* Node types (cmd/aiagent/nodes and pkg/nodes declare the same values).    *)
(***************************************************************************)
NodeTypeClassifier == "classifier"

NodeTypeBash == "bash"

NodeTypeValidation == "validation"

NodeTypeFormatter == "formatter"

NodeTypeTerminal == "terminal"

NodeTypeContentCollection == "content_collection"

NodeTypeAnalytics == "analytics"

NodeTypeDirectResponse == "direct_response"

NodeTypeCodeAnalyzer == "code_analyzer"

\* used by the task-tracking runLangGraph; its declaration is not in the sources
NodeTypeCodeFixer == "code_fixer"

NodeTypes ==
  { NodeTypeClassifier, NodeTypeBash, NodeTypeValidation, NodeTypeFormatter,
    NodeTypeContentCollection, NodeTypeAnalytics, NodeTypeDirectResponse,
    NodeTypeCodeAnalyzer, NodeTypeTerminal }

(***************************************************************************)
(* CommandSafetyValidator: cmd/aiagent/nodes/validation.go                  *)
(***************************************************************************)
dangerousPatterns ==
  << "rm -rf", "rm -r", "rmdir", "chmod", "chown", "dd", "mkfs", "fdisk", "mkdisk",
     "sudo", "su ", ":(){:|:&};:", "shutdown", "reboot", "poweroff", ">", ">>", "2>",
     "mv /", "cp /", "apt", "yum", "pacman", "dnf", "zypper" >>

\* strings.Contains(command, pattern): the command is not lower-cased
isDangerousCommand(command) ==
  \E i \in 1..Len(dangerousPatterns) : Contains(command, dangerousPatterns[i])

simulatedCommands == << "ls -la", "df -h", "uname -a", "free -h" >>

simulatedOutputs ==
  << "total 8748\ndrwxrwxr-x  3 mshogin mshogin    4096 Mar 17 01:32 .\ndrwxrwxr-x 21 mshogin mshogin    4096 Mar 17 00:57 ..\n-rwxrwxr-x  1 mshogin mshogin 8941512 Mar 17 01:32 aiagent\ndrwxrwxr-x  3 mshogin mshogin    4096 Mar 17 01:04 cmd\n-rw-rw-r--  1 mshogin mshogin      26 Mar 17 01:04 go.mod",
     "Filesystem      Size  Used Avail Use% Mounted on\n/dev/sda1        50G   25G   25G  50% /\n/dev/sdb1       100G   20G   80G  20% /home\n/dev/sdc1       200G  180G   20G  90% /data",
     "Linux hostname 5.15.0-76-generic #83-Ubuntu SMP Wed Feb 14 10:54:05 UTC 2024 x86_64 GNU/Linux",
     "              total        used        free      shared  buff/cache   available\nMem:           16Gi       4.5Gi       8.0Gi       0.5Gi       3.0Gi      11.0Gi\nSwap:           4Gi       0.0Gi       4.0Gi" >>

\* variant: only a command that is one of the fragments is simulated
isSimulatedExact(command) ==
  \E i \in 1..Len(simulatedCommands) : command = simulatedCommands[i]

isSimulated(command) ==
  \E i \in 1..Len(simulatedCommands) : Contains(command, simulatedCommands[i])

\* the if/else-if chain of canned outputs: the first fragment the command contains
SimulatedOutput(command) ==
  simulatedOutputs[CHOOSE i \in 1..Len(simulatedCommands) :
                     /\ Contains(command, simulatedCommands[i])
                     /\ \A j \in 1..(i - 1) : ~Contains(command, simulatedCommands[j])]

\* one of the alternatives of the score group starts at position k
ScoreAt(text, k, scores) == \E s \in scores : Slice(text, k, Len(s)) = s

\* regexp (?i)TAG\s+\[?(score)\]? found anywhere in the text
TagScoreMatch(text, tag, scores) ==
  \E i \in 1..Len(text) :
    /\ ToLower(Slice(text, i, Len(tag))) = tag
    /\ \E k \in (i + Len(tag) + 1)..Len(text) :
         /\ \A m \in (i + Len(tag))..(k - 1) : IsSpace(CharAt(text, m))
         /\ \/ ScoreAt(text, k, scores)
            \/ CharAt(text, k) = "[" /\ ScoreAt(text, k + 1, scores)

safeRegex(text) == TagScoreMatch(text, "safe", {"1", "2", "3"})

cautionRegex(text) == TagScoreMatch(text, "caution", {"4", "5", "6"})

dangerRegex(text) == TagScoreMatch(text, "dangerous", {"7", "8", "9", "10"})

\* the keyword fallback when no regexp matches
KeywordSafe(assessment) ==
  Contains(ToLower(assessment), "safe") /\ ~Contains(ToLower(assessment), "unsafe")

\* llm is the outcome of LLM.Generate: [err |-> BOOLEAN, text |-> STRING]
validateWithLLM(llm) ==
  IF llm.err THEN [safe |-> FALSE, assessment |-> "", err |-> TRUE]
  ELSE IF safeRegex(llm.text) THEN [safe |-> TRUE, assessment |-> llm.text, err |-> FALSE]
  ELSE IF cautionRegex(llm.text) THEN [safe |-> FALSE, assessment |-> llm.text, err |-> FALSE]
  ELSE IF dangerRegex(llm.text) THEN [safe |-> FALSE, assessment |-> llm.text, err |-> FALSE]
  ELSE [safe |-> KeywordSafe(llm.text), assessment |-> llm.text, err |-> FALSE]

\* The rating the system prompt asks the model for: the assessment BEGINs with
\* SAFE, CAUTION or DANGEROUS followed by its rating, 1-3, 4-6 and 7-10.
ScoreText(text, from) ==
  LET s == IF CharAt(text, from) = "[" THEN from + 1 ELSE from
  IN  IF Slice(text, s, 2) = "10" /\ CharAt(text, s + 2) \notin {"0", "1", "2", "3", "4", "5", "6", "7", "8", "9"}
        THEN "10"
      ELSE IF CharAt(text, s) \in {"1", "2", "3", "4", "5", "6", "7", "8", "9"}
              /\ CharAt(text, s + 1) \notin {"0", "1", "2", "3", "4", "5", "6", "7", "8", "9"}
        THEN CharAt(text, s)
      ELSE ""

RECURSIVE DigitsFrom(_, _)
DigitsFrom(text, k) ==
  IF CharAt(text, k) \in {"0", "1", "2", "3", "4", "5", "6", "7", "8", "9"}
    THEN CharAt(text, k) \o DigitsFrom(text, k + 1)
    ELSE ""

\* the number written after the tag the assessment begins with, "" for none
StatedScore(text) ==
  LET from == IF HasPrefix(text, "SAFE ") THEN 6
              ELSE IF HasPrefix(text, "CAUTION ") THEN 9
              ELSE IF HasPrefix(text, "DANGEROUS ") THEN 11
              ELSE 0
  IN  IF from = 0 THEN ""
      ELSE DigitsFrom(text, IF CharAt(text, from) = "[" THEN from + 1 ELSE from)

ScoreOutOfRange(text) ==
  /\ StatedScore(text) # ""
  /\ StatedScore(text) \notin {"1", "2", "3", "4", "5", "6", "7", "8", "9", "10"}

ModelRating(text) ==
  IF HasPrefix(text, "SAFE ") /\ ScoreText(text, 6) \in {"1", "2", "3"} THEN "SAFE"
  ELSE IF HasPrefix(text, "CAUTION ") /\ ScoreText(text, 9) \in {"4", "5", "6"} THEN "CAUTION"
  ELSE IF HasPrefix(text, "DANGEROUS ") /\ ScoreText(text, 11) \in {"7", "8", "9", "10"} THEN "DANGEROUS"
  ELSE "NONE"

\* the marker scan of suggestAlternativeCommand
\* variant: independent tests in the same order, so that the last marker found
\* decides the class
errorTypeLastWins(errorMessage) ==
  IF Contains(errorMessage, "syntax error") THEN "syntax_error"
  ELSE IF Contains(errorMessage, "invalid option") \/ Contains(errorMessage, "invalid argument") THEN "invalid_option"
  ELSE IF Contains(errorMessage, "not a directory") THEN "not_a_directory"
  ELSE IF Contains(errorMessage, "No such file") \/ Contains(errorMessage, "not exist") THEN "file_not_found"
  ELSE IF Contains(errorMessage, "permission denied") THEN "permission_denied"
  ELSE IF Contains(errorMessage, "command not found") THEN "command_not_found"
  ELSE "unknown"

errorType(errorMessage) ==
  IF Contains(errorMessage, "command not found") THEN "command_not_found"
  ELSE IF Contains(errorMessage, "permission denied") THEN "permission_denied"
  ELSE IF Contains(errorMessage, "No such file") \/ Contains(errorMessage, "not exist") THEN "file_not_found"
  ELSE IF Contains(errorMessage, "not a directory") THEN "not_a_directory"
  ELSE IF Contains(errorMessage, "invalid option") \/ Contains(errorMessage, "invalid argument") THEN "invalid_option"
  ELSE IF Contains(errorMessage, "syntax error") THEN "syntax_error"
  ELSE "unknown"

\* variant: only an empty suggestion is refused
UsefulAlternativeNonEmpty(response, failedCommand) == response # ""

\* the "basic validation" of a suggestion: not empty and not the failed command
UsefulAlternative(response, failedCommand) == response # "" /\ response # failedCommand

\* llm is the outcome of LLM.Generate; the result is (alternative, error)
suggestAlternativeCommand(failedCommand, llm) ==
  IF llm.err THEN [cmd |-> "", err |-> "failed to generate alternative command: " \o llm.text]
  ELSE IF ~UsefulAlternative(TrimSpace(llm.text), failedCommand)
    THEN [cmd |-> "", err |-> "couldn't generate a useful alternative command"]
  ELSE [cmd |-> TrimSpace(llm.text), err |-> ""]

\* variant: an empty answer counts as yes
AffirmativeOrEmpty(response) ==
  LET r == TrimSpace(ToLower(response)) IN r = "y" \/ r = "yes" \/ r = ""

\* response = strings.TrimSpace(strings.ToLower(response)); "y" or "yes"
Affirmative(response) ==
  LET r == TrimSpace(ToLower(response)) IN r = "y" \/ r = "yes"

\* exec is the outcome of CombinedOutput: [out, err, isExit, code]; isExit says
\* that err is an *exec.ExitError, whose exit code is code
ErrorMessage(exec) ==
  "Command execution failed: " \o exec.err \o "\n"
    \o (IF exec.isExit THEN "Exit code: " \o exec.code ELSE "Error type: *os.PathError")
    \o "\nOutput: " \o exec.out

(***************************************************************************)
(* What the collaborators may answer: the model (LLM.Generate), the         *)
(* operator at the terminal and the shell.                                  *)
(***************************************************************************)
LLMError == [err |-> TRUE, text |-> "API key not set"]

LLMText(t) == [err |-> FALSE, text |-> t]

\* variant: the backend answers whatever the credential is
GenerateAnyway(apiKey, answers) == {LLMError} \cup {LLMText(t) : t \in answers}

\* DefaultLLM.Generate: an error at once without a key, else the call fails or
\* the model answers with one of answers
Generate(apiKey, answers) ==
  IF apiKey = "" THEN {LLMError}
  ELSE {LLMError} \cup {LLMText(t) : t \in answers}

Inputs == {"list files"}

OnePassClassifierAnswers ==
  {"bash", "content_collection", " Direct_Response\n", "code_analyzer", "", "foo"}

BashAnswers ==
  {"ls -la", " rm -rf /tmp/x\n", "pythn app.py", "CHMOD 777 notes.txt",
   "free -h; rm -rf /; ls -la"}

Assessments ==
  {"SAFE [2] read only", "CAUTION [5] changes files", "DANGEROUS [8] deletes data",
   "SAFE [5] hmm", "SAFE [11] fine", "I cannot tell"}

OperatorAnswers == {"y\n", " YES \n", "n\n", ""}

ExecOutcomes ==
  { [out |-> "a.txt\n", err |-> "", isExit |-> FALSE, code |-> ""],
    [out |-> "bash: pythn: command not found\n", err |-> "exit status 127", isExit |-> TRUE, code |-> "127"],
    [out |-> "", err |-> "fork/exec /usr/bin/bash: resource temporarily unavailable", isExit |-> FALSE, code |-> ""] }

\* the class suggestAlternativeCommand gives the failure text of each outcome
FailureClass == [exec \in ExecOutcomes |-> errorType(ErrorMessage(exec))]

Suggestions(failedCommand) ==
  {"", " \n", failedCommand, " " \o failedCommand \o "\n", "python3 app.py\n", "ls -la"}

ResponseTexts == {"", "answer"}

FormatterAnswers == {"\\x1b[1mformatted\\x1b[0m"}

(***************************************************************************)
(* The run state (type State), the result of runLangGraph, the position     *)
(* inside ValidationNode.Process, and history variables the properties      *)
(* read.                                                                    *)
(***************************************************************************)
VARIABLES
  program,             \* "onepass" or "tracking": the build that runs
  ForceApproval,       \* ValidationNode.ForceApproval (flag -y)
  Input, Command, NextNode, FinalResult, RawOutput,
  CurrentTask, TaskHistory, GlobalGoal,
  status,              \* "running", "returned" (runLangGraph returned), "exited" (os.Exit)
  ret,                 \* what runLangGraph returned: [text, err], err = "" for nil;
                       \* cause is the handler's error, at the handlers called by then
  vpc,                 \* position in ValidationNode.Process: "idle" outside it
  alternativeCommand,  \* its local of that name, while the operator is asked
  check,               \* what the checks of the active command found
  dispatched,          \* history: the nodes whose handler the loop called, in order
  shellLog,            \* history: the commands handed to exec.Command, in order
  vstat,               \* history: counters of the validator's steps
  route,               \* history: the node name of the model's last routing answer
  ledger,              \* history: what the tracking classifier was told and did
  ApiKey,              \* DefaultLLM.ApiKey: OPENAI_API_KEY as NewDefaultLLM read it
  handler              \* history: the handler called last, whether it assigned
                       \* state.NextNode, whether it returned an error

vars ==
  << program, ForceApproval, Input, Command, NextNode, FinalResult, RawOutput,
     CurrentTask, TaskHistory, GlobalGoal, status, ret, vpc, alternativeCommand,
     check, dispatched, shellLog, vstat, route, ledger, ApiKey, handler >>

stateVars == << Input, Command, NextNode, FinalResult, RawOutput, CurrentTask, TaskHistory, GlobalGoal >>

validatorVars == << vpc, alternativeCommand, check, shellLog, vstat >>

EmptyTask == [NodeType |-> "", Goal |-> "", IsCompleted |-> FALSE, Result |-> ""]

NoCheck ==
  [checked |-> FALSE, command |-> "", static |-> FALSE, llm |-> "skipped",
   assessment |-> "", rated |-> "NONE", safe |-> FALSE, prompted |-> FALSE,
   confirmed |-> FALSE]

\* entries: calls of Process; accepts: alternatives accepted (accepted: the last);
\* suggests: suggestions asked for (suggested: the last, trimmed); declined: the
\* last safety prompt was not answered "y" or "yes"; refused: so was the last
\* offer of an alternative; useless: the last suggestion
\* was empty or the failed command; mark: the length of shellLog, the suggestions
\* asked and the alternatives offered, when declined or useless was set
NoVstat ==
  [entries |-> 0, accepts |-> 0, accepted |-> "", suggests |-> 0, suggested |-> "",
   safetyPrompts |-> 0, altPrompts |-> 0, declined |-> FALSE, refused |-> FALSE,
   useless |-> FALSE,
   errorMessage |-> "", errorType |-> "", mark |-> [shell |-> 0, suggests |-> 0, altPrompts |-> 0]]

\* verified: the tasks whose verification answered done, in that order; created:
\* the tasks the classifier created; last: its last call, the answers it got
\* (verify: "none", "failed", "done" or "notdone"; goal: "none", "failed", "met" or
\* "unmet"; routed: the routing query has an answer; answer) and what it did
\* (queried the routing, made a task, returned result and err); left: the pointer
\* as the handler called last left it; bash: the last call of the bash node of
\* the tracking graph (the model answered with command; the State fields the
\* handler assigned a new value)
NoStep ==
  [verify |-> "none", goal |-> "none", routed |-> FALSE,
   answer |-> [next_node |-> "", goal |-> ""], queried |-> FALSE, made |-> FALSE,
   result |-> "", err |-> "", calls |-> << >>, shown |-> << >>, wrote |-> {},
   before |-> [next |-> "", task |-> EmptyTask, history |-> << >>]]

NoBash == [answered |-> FALSE, command |-> "", wrote |-> {}]

NoLedger == [verified |-> << >>, created |-> 0, last |-> NoStep, left |-> "", bash |-> NoBash]

NoHandler == [node |-> "", assigned |-> FALSE, failed |-> FALSE]

\* history: the handler of node returned
Handled(node, assigned, failed) ==
  handler' = [node |-> node, assigned |-> assigned, failed |-> failed]

(***************************************************************************)
(* runLangGraph: the initial state and the loop.                            *)
(***************************************************************************)
\* variant: the run starts at the bash node
InitialNodeBash == NodeTypeBash

\* NextNode: nodes.NodeTypeClassifier in the initial state
InitialNode == NodeTypeClassifier

Init ==
  /\ program \in {"onepass", "tracking"}
  /\ ForceApproval \in BOOLEAN
  /\ Input \in Inputs
  /\ GlobalGoal = (IF program = "tracking" THEN Input ELSE "")
  /\ NextNode = InitialNode
  /\ Command = ""
  /\ FinalResult = ""
  /\ RawOutput = ""
  /\ CurrentTask = EmptyTask
  /\ TaskHistory = << >>
  /\ status = "running"
  /\ ret = [text |-> "", err |-> "", cause |-> "", at |-> 0]
  /\ vpc = "idle"
  /\ alternativeCommand = ""
  /\ check = NoCheck
  /\ dispatched = << >>
  /\ shellLog = << >>
  /\ vstat = NoVstat
  /\ route = [asked |-> FALSE, answer |-> ""]
  /\ ledger = NoLedger
  /\ ApiKey \in (IF program = "onepass" THEN {"", "sk-live"} ELSE {"sk-live"})
  /\ handler = NoHandler

\* the loop is about to call the handler of node
AtNode(prog, node) ==
  /\ program = prog
  /\ status = "running"
  /\ vpc = "idle"
  /\ NextNode = node

\* if err != nil { return "", fmt.Errorf("error in node %s: %v", state.NextNode, err) }
\* variant: the error is returned with the text collected so far
ErrorResultPartial(finalResult, node, cause) ==
  [text |-> finalResult, err |-> "error in node " \o node \o ": " \o cause]

ErrorResult(finalResult, node, cause) ==
  [text |-> "", err |-> "error in node " \o node \o ": " \o cause]

ReturnError(node, cause) ==
  /\ status' = "returned"
  /\ ret' = ErrorResult(FinalResult, node, cause) @@ [cause |-> cause, at |-> Len(dispatched')]

\* variant: the loop also ends when the pointer is back at the classifier
LoopEndsAtClassifier(next) == next \in {NodeTypeTerminal, NodeTypeClassifier}

\* for state.NextNode != NodeTypeTerminal: the condition that ends the loop
LoopEnds(next) == next = NodeTypeTerminal

\* for state.NextNode != NodeTypeTerminal { ... }; return state.FinalResult, nil
Return ==
  /\ status = "running"
  /\ vpc = "idle"
  /\ LoopEnds(NextNode)
  /\ status' = "returned"
  /\ ret' = [text |-> FinalResult, err |-> "", cause |-> "", at |-> Len(dispatched)]
  /\ UNCHANGED << program, ForceApproval, ApiKey, stateVars, validatorVars, dispatched, route, ledger, handler >>

\* default: return "", fmt.Errorf("invalid node type: %s", state.NextNode)
InvalidNode ==
  /\ status = "running"
  /\ vpc = "idle"
  /\ NextNode \notin NodeTypes
  /\ program = "tracking" => NextNode # NodeTypeCodeFixer
  /\ status' = "returned"
  /\ ret' = [text |-> "", err |-> "invalid node type: " \o NextNode, cause |-> "", at |-> Len(dispatched)]
  /\ UNCHANGED << program, ForceApproval, ApiKey, stateVars, validatorVars, dispatched, route, ledger, handler >>

(***************************************************************************)
(* The one-pass graph: cmd/aiagent/main.go and cmd/aiagent/nodes.           *)
(***************************************************************************)
\* variant: any other answer is taken as the name of the next node
OnePassClassifyKeepsAnswer(llm, need) ==
  LET response == ToLower(TrimSpace(llm.text))
  IN  IF llm.err THEN [next |-> "", err |-> "classifier LLM error: " \o llm.text]
      ELSE IF response = "content_collection"
        THEN IF need.err
               THEN [next |-> "", err |-> "content need determination error: content need LLM error: " \o need.text]
               ELSE [next |-> NodeTypeContentCollection, err |-> ""]
      ELSE [next |-> response, err |-> ""]

\* ClassifierNode.Process: llm answers the routing query, need the query of
\* determineContentNeed; the result is the node chosen, or the error returned
OnePassClassify(llm, need) ==
  LET response == ToLower(TrimSpace(llm.text))
  IN  IF llm.err THEN [next |-> "", err |-> "classifier LLM error: " \o llm.text]
      ELSE IF response = "content_collection"
        THEN IF need.err
               THEN [next |-> "", err |-> "content need determination error: content need LLM error: " \o need.text]
               ELSE [next |-> NodeTypeContentCollection, err |-> ""]
      ELSE IF response = "direct_response" THEN [next |-> NodeTypeDirectResponse, err |-> ""]
      ELSE IF response = "code_analyzer" THEN [next |-> NodeTypeCodeAnalyzer, err |-> ""]
      ELSE [next |-> NodeTypeBash, err |-> ""]

OnePassClassifierProcess ==
  /\ AtNode("onepass", NodeTypeClassifier)
  /\ dispatched' = Append(dispatched, NodeTypeClassifier)
  /\ \E llm \in Generate(ApiKey, OnePassClassifierAnswers),
        need \in Generate(ApiKey, {"{\"needsContent\": false, \"filePatterns\": []}"}) :
       LET r == OnePassClassify(llm, need)
       IN  /\ route' = (IF llm.err THEN route
                          ELSE [asked |-> TRUE, answer |-> ToLower(TrimSpace(llm.text))])
           /\ IF r.err # ""
                THEN ReturnError(NextNode, r.err) /\ Handled(NodeTypeClassifier, FALSE, TRUE) /\ NextNode' = NextNode
                ELSE NextNode' = r.next /\ Handled(NodeTypeClassifier, TRUE, FALSE) /\ UNCHANGED << status, ret >>
  /\ UNCHANGED << program, ForceApproval, ApiKey, Input, Command, FinalResult, RawOutput,
                  CurrentTask, TaskHistory, GlobalGoal, validatorVars, ledger >>

\* BashNode.Process: the model's answer, trimmed, becomes the command
OnePassBashProcess ==
  /\ AtNode("onepass", NodeTypeBash)
  /\ dispatched' = Append(dispatched, NodeTypeBash)
  /\ \E llm \in Generate(ApiKey, BashAnswers) :
       IF llm.err
         THEN /\ ReturnError(NextNode, "bash LLM error: " \o llm.text) /\ Handled(NodeTypeBash, FALSE, TRUE)
              /\ UNCHANGED << Command, NextNode >>
         ELSE /\ Command' = TrimSpace(llm.text)
              /\ NextNode' = NodeTypeValidation /\ Handled(NodeTypeBash, TRUE, FALSE)
              /\ UNCHANGED << status, ret >>
  /\ UNCHANGED << program, ForceApproval, ApiKey, Input, FinalResult, RawOutput,
                  CurrentTask, TaskHistory, GlobalGoal, validatorVars, route, ledger >>

\* variant: no command is executed without the prompt
AutoExecuteNever(v, command) == FALSE

\* variant: a safe rating is enough, whatever the static check found
AutoExecuteIfSafe(v, command) == v.safe

\* if safe && !isDangerousCommand(state.Command): executed automatically
AutoExecute(v, command) == v.safe /\ ~isDangerousCommand(command)

\* the confirmation prompt is in the else branch of "if err != nil"
PromptRequired(v, command) == ~v.err /\ ~AutoExecute(v, command)

\* variant: the checks run whatever the flag says
ChecksRunIgnoringForce(command, force) == ~isSimulated(command)

\* whether Process runs the static and the model check at all
ChecksRun(command, force) == ~isSimulated(command) /\ ~force

\* ValidationNode.Process from its entry to the confirmation prompt or to the
\* execution: called by the loop (vpc = "idle") or by itself (vpc = "entry")
ValidationProcess ==
  /\ program = "onepass"
  /\ status = "running"
  /\ \/ vpc = "idle" /\ NextNode = NodeTypeValidation
     \/ vpc = "entry"
  /\ dispatched' = (IF vpc = "idle" THEN Append(dispatched, NodeTypeValidation) ELSE dispatched)
  /\ vstat' = [vstat EXCEPT !.entries = @ + 1]
  /\ IF ChecksRun(Command, ForceApproval)
       THEN \E llm \in Generate(ApiKey, Assessments) :
              LET v == validateWithLLM(llm)
              IN  /\ check' = [checked |-> TRUE,
                               command |-> Command,
                               static |-> isDangerousCommand(Command),
                               llm |-> (IF llm.err THEN "error" ELSE "ok"),
                               assessment |-> (IF llm.err THEN "" ELSE llm.text),
                               rated |-> (IF llm.err THEN "NONE" ELSE ModelRating(llm.text)),
                               safe |-> v.safe,
                               prompted |-> PromptRequired(v, Command),
                               confirmed |-> FALSE]
                  /\ vpc' = (IF PromptRequired(v, Command) THEN "confirm" ELSE "exec")
       ELSE /\ check' = NoCheck
            /\ vpc' = "exec"
  /\ UNCHANGED << program, ForceApproval, ApiKey, stateVars, status, ret, alternativeCommand,
                  shellLog, route, ledger, handler >>

\* history: the operator typed y or yes, in any case, spaces around it or not
SaidYes(answer) == \E word \in {"y", "Y", "yes", "Yes", "YES"} : TrimSpace(answer) = word

\* history: the counters as they are now
Mark == [shell |-> Len(shellLog), suggests |-> vstat.suggests, altPrompts |-> vstat.altPrompts]

\* "Execute this command? [y/N]: " and the operator's answer
ValidationConfirm ==
  /\ program = "onepass"
  /\ status = "running"
  /\ vpc = "confirm"
  /\ \E answer \in OperatorAnswers :
       IF Affirmative(answer)
         THEN /\ vpc' = "exec" /\ UNCHANGED handler
              /\ check' = [check EXCEPT !.confirmed = TRUE]
              /\ vstat' = [vstat EXCEPT !.safetyPrompts = @ + 1,
                                        !.declined = ~SaidYes(answer),
                                        !.mark = Mark]
              /\ UNCHANGED << RawOutput, FinalResult, NextNode >>
         ELSE /\ RawOutput' = "Command execution cancelled by user."
              /\ FinalResult' = RawOutput'
              /\ NextNode' = NodeTypeFormatter
              /\ vpc' = "idle" /\ Handled(NodeTypeValidation, TRUE, FALSE)
              /\ check' = check
              /\ vstat' = [vstat EXCEPT !.safetyPrompts = @ + 1,
                                        !.declined = ~SaidYes(answer),
                                        !.mark = Mark]
  /\ UNCHANGED << program, ForceApproval, ApiKey, Input, Command, CurrentTask, TaskHistory,
                  GlobalGoal, status, ret, alternativeCommand, dispatched, shellLog, route, ledger >>

\* the execution: a canned output for a simulated command, else the shell; on a
\* failure the suggestion of an alternative, up to the prompt for it
ValidationExecute ==
  /\ program = "onepass"
  /\ status = "running"
  /\ vpc = "exec"
  /\ IF isSimulated(Command)
       THEN /\ RawOutput' = SimulatedOutput(Command)
            /\ FinalResult' = "Command output:\n" \o SimulatedOutput(Command)
            /\ NextNode' = NodeTypeFormatter
            /\ vpc' = "idle" /\ Handled(NodeTypeValidation, TRUE, FALSE)
            /\ UNCHANGED << alternativeCommand, shellLog, vstat >>
       ELSE \E exec \in ExecOutcomes :
              /\ shellLog' = Append(shellLog,
                                    [cmd |-> Command, depth |-> vstat.accepts,
                                     entries |-> vstat.entries, check |-> check,
                                     ok |-> exec.err = "", out |-> exec.out])
              /\ IF exec.err = ""
                   THEN /\ RawOutput' = exec.out
                        /\ FinalResult' = "Command output:\n" \o exec.out
                        /\ NextNode' = NodeTypeFormatter
                        /\ vpc' = "idle" /\ Handled(NodeTypeValidation, TRUE, FALSE)
                        /\ UNCHANGED << alternativeCommand, vstat >>
                   ELSE \E llm \in Generate(ApiKey, Suggestions(Command)) :
                          LET s == suggestAlternativeCommand(Command, llm)
                              useless == ~llm.err /\ TrimSpace(llm.text) \in {"", Command}
                          IN  /\ vstat' = [vstat EXCEPT
                                             !.suggests = @ + 1,
                                             !.suggested = IF llm.err THEN "" ELSE TrimSpace(llm.text),
                                             !.errorMessage = ErrorMessage(exec),
                                             !.errorType = FailureClass[exec],
                                             !.useless = useless,
                                             !.mark = IF useless
                                                        THEN [shell |-> Len(shellLog'),
                                                              suggests |-> vstat.suggests + 1,
                                                              altPrompts |-> vstat.altPrompts]
                                                        ELSE @]
                              /\ IF s.err # ""
                                   THEN /\ RawOutput' = ErrorMessage(exec)
                                        /\ FinalResult' = ErrorMessage(exec)
                                        /\ NextNode' = NodeTypeFormatter
                                        /\ vpc' = "idle" /\ Handled(NodeTypeValidation, TRUE, FALSE)
                                        /\ UNCHANGED alternativeCommand
                                   ELSE /\ RawOutput' = ErrorMessage(exec) \o "\n\nAlternative command suggestion: " \o s.cmd
                                        /\ alternativeCommand' = s.cmd
                                        /\ vpc' = "altconfirm" /\ UNCHANGED handler
                                        /\ UNCHANGED << FinalResult, NextNode >>
  /\ UNCHANGED << program, ForceApproval, ApiKey, Input, Command, CurrentTask, TaskHistory,
                  GlobalGoal, status, ret, check, dispatched, route, ledger >>

\* variant: an accepted alternative is executed at once
AfterAcceptExecutes == "exec"

\* variant: an accepted alternative ends the call
AfterAcceptReturns == "idle"

\* return n.Process(state): an accepted alternative starts Process anew
AfterAccept == "entry"

\* "Run this alternative command? [y/N]: " and the operator's answer; on yes
\* state.Command = alternativeCommand; return n.Process(state)
\* variant: with force-approval the alternative is taken whatever the answer
AcceptsAlternativeForced(answer, force) == force \/ Affirmative(answer)

\* response == "y" || response == "yes" at the alternative prompt; n.ForceApproval
\* is not consulted on this path
AcceptsAlternative(answer, force) == Affirmative(answer)

ValidationAlternative ==
  /\ program = "onepass"
  /\ status = "running"
  /\ vpc = "altconfirm"
  /\ \E answer \in OperatorAnswers :
       IF AcceptsAlternative(answer, ForceApproval)
         THEN /\ vstat.accepts < MaxRetry
              /\ Command' = alternativeCommand
              /\ vpc' = AfterAccept /\ UNCHANGED handler
              /\ vstat' = [vstat EXCEPT !.altPrompts = @ + 1, !.accepts = @ + 1,
                                        !.accepted = vstat.suggested,
                                        !.refused = ~SaidYes(answer)]
              /\ UNCHANGED << FinalResult, NextNode >>
         ELSE /\ FinalResult' = RawOutput
              /\ NextNode' = NodeTypeFormatter
              /\ vpc' = "idle" /\ Handled(NodeTypeValidation, TRUE, FALSE)
              /\ vstat' = [vstat EXCEPT !.altPrompts = @ + 1,
                                        !.refused = ~SaidYes(answer),
                                        !.mark = [Mark EXCEPT !.altPrompts = @ + 1]]
              /\ UNCHANGED Command
  /\ alternativeCommand' = ""
  /\ UNCHANGED << program, ForceApproval, ApiKey, Input, RawOutput, CurrentTask, TaskHistory,
                  GlobalGoal, status, ret, check, dispatched, shellLog, route, ledger >>

\* the ESC byte (0x1b) is written "^" here: TLA+ strings hold printable text
EscByte == "^"

RECURSIVE ReplaceAll(_, _, _)
ReplaceAll(s, old, new) ==
  IF s = "" THEN ""
  ELSE IF HasPrefix(s, old) THEN new \o ReplaceAll(SubSeq(s, Len(old) + 1, Len(s)), old, new)
  ELSE Head(s) \o ReplaceAll(Tail(s), old, new)

\* FormatterNode.Process skips an empty or a "cancelled" result
FormatterSkips(finalResult) == finalResult = "" \/ Contains(finalResult, "cancelled")

OnePassFormatterProcess ==
  /\ AtNode("onepass", NodeTypeFormatter)
  /\ dispatched' = Append(dispatched, NodeTypeFormatter)
  /\ IF FormatterSkips(FinalResult)
       THEN /\ NextNode' = NodeTypeTerminal /\ Handled(NodeTypeFormatter, TRUE, FALSE)
            /\ UNCHANGED << FinalResult, status, ret >>
       ELSE \E llm \in Generate(ApiKey, FormatterAnswers) :
              IF llm.err
                THEN /\ ReturnError(NextNode, "formatter LLM error: " \o llm.text) /\ Handled(NodeTypeFormatter, FALSE, TRUE)
                     /\ UNCHANGED << FinalResult, NextNode >>
                ELSE /\ FinalResult' = ReplaceAll(llm.text, "\\x1b", EscByte)
                     /\ NextNode' = NodeTypeTerminal /\ Handled(NodeTypeFormatter, TRUE, FALSE)
                     /\ UNCHANGED << status, ret >>
  /\ UNCHANGED << program, ForceApproval, ApiKey, Input, Command, RawOutput,
                  CurrentTask, TaskHistory, GlobalGoal, validatorVars, route, ledger >>

\* ContentCollectionNode.Process: the walk of the directory fails or not
OnePassContentCollectionProcess ==
  /\ AtNode("onepass", NodeTypeContentCollection)
  /\ dispatched' = Append(dispatched, NodeTypeContentCollection)
  /\ \E failed \in BOOLEAN :
       IF failed
         THEN /\ ReturnError(NextNode, "failed to collect directory contents: walk error") /\ Handled(NodeTypeContentCollection, FALSE, TRUE)
              /\ UNCHANGED NextNode
         ELSE /\ NextNode' = NodeTypeAnalytics /\ Handled(NodeTypeContentCollection, TRUE, FALSE)
              /\ UNCHANGED << status, ret >>
  /\ UNCHANGED << program, ForceApproval, ApiKey, Input, Command, FinalResult, RawOutput,
                  CurrentTask, TaskHistory, GlobalGoal, validatorVars, route, ledger >>

OnePassAnalyticsProcess ==
  /\ AtNode("onepass", NodeTypeAnalytics)
  /\ dispatched' = Append(dispatched, NodeTypeAnalytics)
  /\ \E llm \in Generate(ApiKey, ResponseTexts) :
       IF llm.err
         THEN /\ ReturnError(NextNode, "analytics LLM error: " \o llm.text) /\ Handled(NodeTypeAnalytics, FALSE, TRUE)
              /\ UNCHANGED << RawOutput, FinalResult, NextNode >>
         ELSE /\ RawOutput' = llm.text
              /\ FinalResult' = llm.text
              /\ NextNode' = NodeTypeTerminal /\ Handled(NodeTypeAnalytics, TRUE, FALSE)
              /\ UNCHANGED << status, ret >>
  /\ UNCHANGED << program, ForceApproval, ApiKey, Input, Command,
                  CurrentTask, TaskHistory, GlobalGoal, validatorVars, route, ledger >>

OnePassDirectResponseProcess ==
  /\ AtNode("onepass", NodeTypeDirectResponse)
  /\ dispatched' = Append(dispatched, NodeTypeDirectResponse)
  /\ \E llm \in Generate(ApiKey, ResponseTexts) :
       IF llm.err
         THEN /\ ReturnError(NextNode, "direct response LLM error: " \o llm.text) /\ Handled(NodeTypeDirectResponse, FALSE, TRUE)
              /\ UNCHANGED << FinalResult, NextNode >>
         ELSE /\ FinalResult' = llm.text
              /\ NextNode' = NodeTypeTerminal /\ Handled(NodeTypeDirectResponse, TRUE, FALSE)
              /\ UNCHANGED << status, ret >>
  /\ UNCHANGED << program, ForceApproval, ApiKey, Input, Command, RawOutput,
                  CurrentTask, TaskHistory, GlobalGoal, validatorVars, route, ledger >>

\* CodeAnalyzerNode.Process: one of its steps fails, or the summary is stored
OnePassCodeAnalyzerProcess ==
  /\ AtNode("onepass", NodeTypeCodeAnalyzer)
  /\ dispatched' = Append(dispatched, NodeTypeCodeAnalyzer)
  /\ \E llm \in Generate(ApiKey, ResponseTexts) :
       IF llm.err
         THEN /\ ReturnError(NextNode, "failed to analyze subject: " \o llm.text) /\ Handled(NodeTypeCodeAnalyzer, FALSE, TRUE)
              /\ UNCHANGED << FinalResult, NextNode >>
         ELSE /\ FinalResult' = llm.text
              /\ NextNode' = NodeTypeTerminal /\ Handled(NodeTypeCodeAnalyzer, TRUE, FALSE)
              /\ UNCHANGED << status, ret >>
  /\ UNCHANGED << program, ForceApproval, ApiKey, Input, Command, RawOutput,
                  CurrentTask, TaskHistory, GlobalGoal, validatorVars, route, ledger >>

(***************************************************************************)
(* The tracking graph: the runLangGraph that keeps a goal and a task        *)
(* history, with the handlers of pkg/nodes.  The model's JSON answers are   *)
(* records: fail is the error of the call or of json.Unmarshal, "" for none.*)
(***************************************************************************)
CallFailed == "LLM error: API key not set"

ParseFailed == "failed to parse LLM response: invalid character 'o' in literal"

BoolAnswers ==
  { [fail |-> CallFailed, value |-> FALSE], [fail |-> ParseFailed, value |-> FALSE],
    [fail |-> "", value |-> TRUE], [fail |-> "", value |-> FALSE] }

RoutingGoal == "list the files"

\* next_node and goal of the routing answer; a missing field is Go's ""
RoutingAnswers ==
  { [fail |-> CallFailed, next_node |-> "", goal |-> ""],
    [fail |-> ParseFailed, next_node |-> "", goal |-> ""] }
  \cup { [fail |-> "", next_node |-> n, goal |-> RoutingGoal] :
           n \in NodeTypes \cup {NodeTypeCodeFixer, "", "foo"} }

\* variant: the task is put in front of the history
AppendHistoryFront(history, task) == << task >> \o history

\* variant: the task is not recorded
AppendHistoryNone(history, task) == history

\* variant: the task is recorded with its completion flag cleared
AppendHistoryUnflagged(history, task) == Append(history, [task EXCEPT !.IsCompleted = FALSE])

\* state.TaskHistory = append(state.TaskHistory, state.CurrentTask)
AppendHistory(history, task) == Append(history, task)

\* variant: the new task is born completed
NewTaskDone(nextNode, goal) ==
  [NodeType |-> nextNode, Goal |-> goal, IsCompleted |-> TRUE, Result |-> ""]

\* state.CurrentTask = TaskStatus{NodeType: nextNode, Goal: goal}
NewTask(nextNode, goal) ==
  [NodeType |-> nextNode, Goal |-> goal, IsCompleted |-> FALSE, Result |-> ""]

\* variant: the goal is met but the current task stays
GoalMetKeepsTask(keep) == [keep EXCEPT !.next = NodeTypeTerminal, !.assigned = TRUE]

\* if goalMet: state.NextNode = terminal; state.CurrentTask = TaskStatus{}; return "", nil
GoalMet(keep) ==
  [keep EXCEPT !.next = NodeTypeTerminal, !.task = EmptyTask, !.assigned = TRUE]

\* variant: only a failed call counts, an answer that does not parse is taken
\* with the zero values of its fields
QueryFailedOnCallOnly(answer) == answer.fail = CallFailed

\* err != nil after n.llm.Complete or after json.Unmarshal of the answer
QueryFailed(answer) == answer.fail # ""

\* ClassifierNode.Process on the pointer next, the current task and the history,
\* given the answers to verifyTaskCompletion, isGlobalGoalMet and classifyRequest
ClassifierProcess(next, task, history, verify, met, cls) ==
  LET hasTask == task.NodeType # ""
      task1 == IF hasTask THEN [task EXCEPT !.IsCompleted = verify.value] ELSE task
      completed == hasTask /\ verify.value
      hist1 == IF completed THEN AppendHistory(history, task1) ELSE history
      \* calls: the queries made, in order; shown: the history in the prompt of
      \* isGlobalGoalMet; assigned: state.NextNode was assigned
      asked == (IF hasTask THEN << "verify" >> ELSE << >>)
                 \o (IF completed THEN << "goal" >> ELSE << >>)
      keep == [next |-> next, task |-> task1, history |-> hist1, result |-> "",
               queried |-> FALSE, made |-> FALSE, err |-> "", assigned |-> FALSE,
               calls |-> asked, shown |-> IF completed THEN hist1 ELSE << >>]
  IN  IF hasTask /\ QueryFailed(verify)
        THEN [keep EXCEPT !.task = task, !.history = history, !.calls = << "verify" >>,
                          !.shown = << >>,
                          !.err = "failed to verify task completion: " \o verify.fail]
      ELSE IF completed /\ QueryFailed(met)
        THEN [keep EXCEPT !.err = "failed to check global goal: " \o met.fail]
      ELSE IF completed /\ met.value
        THEN GoalMet(keep)
      ELSE IF QueryFailed(cls)
        THEN [keep EXCEPT !.queried = TRUE, !.calls = Append(asked, "route"),
                          !.err = "failed to classify request: " \o cls.fail]
      ELSE [keep EXCEPT !.next = cls.next_node, !.task = NewTask(cls.next_node, cls.goal),
                        !.result = cls.goal, !.queried = TRUE, !.made = TRUE,
                        !.calls = Append(asked, "route"), !.assigned = TRUE]

\* cwd of os.Getwd, stored in State.WorkingDirectory once and never assigned again
WorkingDirectory == "/work"

\* the fields of nodes.State that the handlers read or write
StateNow ==
  [Input |-> Input, GlobalGoal |-> GlobalGoal, WorkingDirectory |-> WorkingDirectory,
   Command |-> Command, RawOutput |-> RawOutput, FinalResult |-> FinalResult,
   NextNode |-> NextNode, CurrentTask |-> CurrentTask, TaskHistory |-> TaskHistory]

\* variant: Process also stores the goal it returns as the final result
ClassifierLeavesResult(state, r) ==
  [state EXCEPT !.NextNode = r.next, !.CurrentTask = r.task, !.TaskHistory = r.history,
                !.FinalResult = r.result]

\* the State as ClassifierNode.Process leaves it: its assignments are to
\* CurrentTask.IsCompleted (49), TaskHistory (53), NextNode and CurrentTask (62-63, 75-79)
ClassifierLeaves(state, r) ==
  [state EXCEPT !.NextNode = r.next, !.CurrentTask = r.task, !.TaskHistory = r.history]

\* case nodes.NodeTypeClassifier, the error check and the update of FinalResult
TrackingClassifierProcess ==
  /\ AtNode("tracking", NodeTypeClassifier)
  /\ Len(dispatched) < MaxDispatch
  /\ dispatched' = Append(dispatched, NodeTypeClassifier)
  /\ \E verify \in BoolAnswers, met \in BoolAnswers, cls \in RoutingAnswers :
     \E now \in {StateNow} :
     \E r \in {ClassifierProcess(NextNode, CurrentTask, TaskHistory, verify, met, cls)} :
     \E left \in {ClassifierLeaves(now, r)} :
       LET hadTask == CurrentTask.NodeType # ""
           done == hadTask /\ verify.fail = "" /\ verify.value
       IN  /\ NextNode' = left.NextNode
           /\ CurrentTask' = left.CurrentTask
           /\ TaskHistory' = left.TaskHistory
           /\ Input' = left.Input
           /\ GlobalGoal' = left.GlobalGoal
           /\ Command' = left.Command
           /\ RawOutput' = left.RawOutput
           /\ ledger' = [verified |-> IF done
                                        THEN Append(ledger.verified, [CurrentTask EXCEPT !.IsCompleted = TRUE])
                                        ELSE ledger.verified,
                         created |-> ledger.created + (IF r.made THEN 1 ELSE 0),
                         left |-> left.NextNode,
                         bash |-> ledger.bash,
                         last |-> [verify |-> IF ~hadTask THEN "none"
                                               ELSE IF verify.fail # "" THEN "failed"
                                               ELSE IF verify.value THEN "done" ELSE "notdone",
                                   goal |-> IF ~done THEN "none"
                                             ELSE IF met.fail # "" THEN "failed"
                                             ELSE IF met.value THEN "met" ELSE "unmet",
                                   routed |-> cls.fail = "",
                                   answer |-> [next_node |-> cls.next_node, goal |-> cls.goal],
                                   queried |-> r.queried,
                                   made |-> r.made,
                                   result |-> r.result,
                                   err |-> r.err,
                                   calls |-> r.calls,
                                   shown |-> r.shown,
                                   wrote |-> {f \in DOMAIN now : left[f] # now[f]},
                                   before |-> [next |-> NextNode, task |-> CurrentTask,
                                               history |-> TaskHistory]]]
           /\ route' = (IF r.queried /\ cls.fail = ""
                          THEN [asked |-> TRUE, answer |-> cls.next_node] ELSE route)
           /\ Handled(NodeTypeClassifier, r.assigned, r.err # "")
           /\ IF r.err # ""
                THEN ReturnError(r.next, r.err) /\ FinalResult' = left.FinalResult
                ELSE /\ FinalResult' = (IF r.result # "" THEN r.result ELSE left.FinalResult)
                     /\ UNCHANGED << status, ret >>
  /\ UNCHANGED << program, ForceApproval, ApiKey, validatorVars >>

\* the first whitespace-separated field of s, "" when there is none
RECURSIVE FieldEnd(_, _)
FieldEnd(s, i) == IF i > Len(s) \/ IsSpace(CharAt(s, i)) THEN i - 1 ELSE FieldEnd(s, i + 1)

FirstField(s) == SubSeq(TrimLeft(s), 1, FieldEnd(TrimLeft(s), 1))

\* the backquote is written "~" here: a TLA+ string cannot hold one
Backquote == "~"

blockedPatterns ==
  << "rm -rf", "rm -r", "sudo", ">", ">>", "|", "&", ";", Backquote, "$(", "${", "wget", "curl",
     "nc", "ncat", "telnet", "ftp", "ssh", "scp", "chmod", "chown", "chgrp", "mkfs", "dd",
     "mv", "cp" >>

allowedCommands ==
  { "ls", "pwd", "echo", "cat", "head", "tail", "grep", "find", "df", "du", "free", "ps",
    "top", "uname", "whoami", "id", "date", "uptime", "hostname" }

\* variant: the blocked fragments are looked for in the command as written
validateCommandAsWritten(cmd) ==
  LET hits == {i \in 1..Len(blockedPatterns) : Contains(cmd, blockedPatterns[i])}
      first == CHOOSE i \in hits : \A j \in hits : i <= j
  IN  IF hits # {} THEN "command contains dangerous pattern: " \o blockedPatterns[first]
      ELSE IF FirstField(cmd) = "" THEN "empty command"
      ELSE IF FirstField(cmd) \notin allowedCommands
        THEN "command not in allowed list: " \o FirstField(cmd)
      ELSE ""

\* validateCommand of pkg/nodes/bash.go: "" for nil, else the error's text
validateCommand(cmd) ==
  LET cmdLower == ToLower(cmd)
      hits == {i \in 1..Len(blockedPatterns) : Contains(cmdLower, blockedPatterns[i])}
      first == CHOOSE i \in hits : \A j \in hits : i <= j
  IN  IF hits # {} THEN "command contains dangerous pattern: " \o blockedPatterns[first]
      ELSE IF FirstField(cmd) = "" THEN "empty command"
      ELSE IF FirstField(cmd) \notin allowedCommands
        THEN "command not in allowed list: " \o FirstField(cmd)
      ELSE ""

\* cmd.CombinedOutput in BashNode.Process: the shell's outcomes, and no output
TrackingExecOutcomes ==
  ExecOutcomes \cup { [out |-> "", err |-> "", isExit |-> FALSE, code |-> ""] }

TrackingBashAnswers ==
  { [fail |-> CallFailed, command |-> ""], [fail |-> ParseFailed, command |-> ""],
    [fail |-> "", command |-> "ls -la"], [fail |-> "", command |-> "rm -rf /tmp/x"],
    [fail |-> "", command |-> ""], [fail |-> "", command |-> "pythn app.py"],
    [fail |-> "", command |-> "echo SUDO"] }

\* BashNode.Process of pkg/nodes: what it returns, whether it ran the command
BashProcess(llm, exec) ==
  IF llm.fail = CallFailed
    THEN [result |-> "", err |-> "failed to get command from LLM: API key not set", ran |-> FALSE,
          assigned |-> FALSE]
  ELSE IF llm.fail # ""
    THEN [result |-> "", err |-> llm.fail, ran |-> FALSE, assigned |-> FALSE]
  ELSE IF validateCommand(llm.command) # ""
    THEN [result |-> "", err |-> "command validation failed: " \o validateCommand(llm.command),
          ran |-> FALSE, assigned |-> FALSE]
  ELSE IF exec.err # ""
    THEN [result |-> exec.out, err |-> "command execution failed: " \o exec.err, ran |-> TRUE,
          assigned |-> FALSE]
  ELSE [result |-> TrimSpace(exec.out), err |-> "", ran |-> TRUE, assigned |-> TRUE]

\* the State as BashNode.Process leaves it: state.CurrentTask.Result and
\* state.NextNode are assigned at the end of a successful call only (bash.go 76-77)
BashLeaves(state, r) ==
  IF r.assigned
    THEN [state EXCEPT !.CurrentTask = [state.CurrentTask EXCEPT !.Result = r.result],
                       !.NextNode = NodeTypeClassifier]
    ELSE state

\* variant: the loop keeps the pointer the handler left
RouteBackKeeps(left) == left

\* state.NextNode = nodes.NodeTypeClassifier after the handler of every node
\* but the classifier, whatever the handler left in it
RouteBack(left) == NodeTypeClassifier

\* case nodes.NodeTypeBash: the handler, then state.CurrentTask.Result = result
\* and state.NextNode = classifier, then the error check
TrackingBashProcess ==
  /\ AtNode("tracking", NodeTypeBash)
  /\ Len(dispatched) < MaxDispatch
  /\ dispatched' = Append(dispatched, NodeTypeBash)
  /\ \E llm \in TrackingBashAnswers, exec \in TrackingExecOutcomes :
     \E now \in {StateNow} :
     \E r \in {BashProcess(llm, exec)} :
     \E after \in {BashLeaves(now, r)} :
       LET left == after.NextNode
       IN  /\ CurrentTask' = [after.CurrentTask EXCEPT !.Result = r.result]
           /\ NextNode' = RouteBack(left)
           /\ ledger' = [ledger EXCEPT
                           !.left = left,
                           !.bash = [answered |-> llm.fail = "", command |-> llm.command,
                                     wrote |-> {f \in DOMAIN now : after[f] # now[f]}]]
           /\ shellLog' = (IF r.ran
                             THEN Append(shellLog, [cmd |-> llm.command, depth |-> 0,
                                                    entries |-> 0, check |-> NoCheck,
                                                    ok |-> exec.err = "", out |-> exec.out])
                             ELSE shellLog)
           /\ Handled(NodeTypeBash, r.assigned, r.err # "")
           /\ IF r.err # ""
                THEN ReturnError(RouteBack(left), r.err) /\ UNCHANGED FinalResult
                ELSE /\ FinalResult' = (IF r.result # "" THEN r.result ELSE FinalResult)
                     /\ UNCHANGED << status, ret >>
  /\ UNCHANGED << program, ForceApproval, ApiKey, Input, Command, RawOutput, TaskHistory,
                  GlobalGoal, vpc, alternativeCommand, check, vstat, route >>

\* the cases of the other nodes: the handler stored raw and final and assigned
\* left to state.NextNode (left = "": it assigned nothing), or failed with err;
\* then state.CurrentTask.Result = state.RawOutput and state.NextNode =
\* classifier, then the error check
TrackingStep(node, err, raw, final, left) ==
  /\ AtNode("tracking", node)
  /\ Len(dispatched) < MaxDispatch
  /\ dispatched' = Append(dispatched, node)
  /\ RawOutput' = raw
  /\ FinalResult' = final
  /\ CurrentTask' = [CurrentTask EXCEPT !.Result = raw]
  /\ NextNode' = RouteBack(IF left = "" THEN NextNode ELSE left)
  /\ ledger' = [ledger EXCEPT !.left = IF left = "" THEN NextNode ELSE left]
  /\ Handled(node, left # "", err # "")
  /\ IF err # ""
       THEN ReturnError(RouteBack(IF left = "" THEN NextNode ELSE left), err)
       ELSE UNCHANGED << status, ret >>
  /\ UNCHANGED << program, ForceApproval, ApiKey, Input, Command, TaskHistory, GlobalGoal,
                  validatorVars, route >>

\* the check mark and the cross of the Go text are written [ok] and [x]
ValidationOutput(isValid, explanation) ==
  IF isValid THEN "[ok] Validation passed: " \o explanation \o "\n"
  ELSE "[x] Validation failed: " \o explanation \o "\n\nIssues:\n"

TrackingValidationProcess ==
  \E llm \in {a \in BoolAnswers : a.fail # "" \/ a.value} :
    IF llm.fail = ParseFailed
      THEN TrackingStep(NodeTypeValidation,
                        "failed to parse validation response: invalid character 'o' in literal",
                        RawOutput, FinalResult, "")
    ELSE IF llm.fail # ""
      THEN TrackingStep(NodeTypeValidation, llm.fail, RawOutput, FinalResult, "")
    ELSE TrackingStep(NodeTypeValidation, "", RawOutput, ValidationOutput(llm.value, "as asked"),
                     NodeTypeTerminal)

TrackingFormatterProcess ==
  \E fail \in {"", CallFailed, ParseFailed} :
    TrackingStep(NodeTypeFormatter, fail, RawOutput, FinalResult,
                 IF fail = "" THEN NodeTypeTerminal ELSE "")

TrackingContentCollectionProcess ==
  \E fail \in {"", "failed to collect directory contents: walk error"} :
    TrackingStep(NodeTypeContentCollection, fail, RawOutput, FinalResult,
                 IF fail = "" THEN NodeTypeAnalytics ELSE "")

TrackingAnalyticsProcess ==
  \E llm \in {[fail |-> CallFailed, output |-> ""],
              [fail |-> "failed to parse analytics response: invalid character 'o' in literal", output |-> ""],
              [fail |-> "", output |-> "2 files"]} :
    IF llm.fail # ""
      THEN TrackingStep(NodeTypeAnalytics, llm.fail, RawOutput, FinalResult, "")
      ELSE TrackingStep(NodeTypeAnalytics, "", llm.output, llm.output, NodeTypeTerminal)

TrackingDirectResponseProcess ==
  \E llm \in {LLMError, LLMText("answer")} :
    IF llm.err
      THEN TrackingStep(NodeTypeDirectResponse, "LLM error: " \o llm.text, RawOutput, FinalResult, "")
      ELSE TrackingStep(NodeTypeDirectResponse, "", RawOutput, llm.text, NodeTypeTerminal)

\* CodeAnalyzerNode.Process of pkg/nodes: no content needed (return nil before
\* any assignment of state.NextNode), a failure, or the analysis
TrackingCodeAnalyzerProcess ==
  \E outcome \in {"none", "failed", "analysed"} :
    IF outcome = "failed"
      THEN TrackingStep(NodeTypeCodeAnalyzer, "failed to determine content needs: " \o CallFailed,
                        RawOutput, FinalResult, "")
    ELSE IF outcome = "none"
      THEN TrackingStep(NodeTypeCodeAnalyzer, "", RawOutput, FinalResult, "")
    ELSE TrackingStep(NodeTypeCodeAnalyzer, "", RawOutput, "analysis", NodeTypeTerminal)

\* CodeFixerNode.Process: a failure, or os.Exit(0) after the new version started
TrackingCodeFixerProcess ==
  \/ TrackingStep(NodeTypeCodeFixer, "failed to analyze codebase: " \o CallFailed,
                  RawOutput, FinalResult, "")
  \/ /\ AtNode("tracking", NodeTypeCodeFixer)
     /\ Len(dispatched) < MaxDispatch
     /\ dispatched' = Append(dispatched, NodeTypeCodeFixer)
     /\ status' = "exited"
     /\ UNCHANGED << program, ForceApproval, ApiKey, stateVars, ret, validatorVars, route, ledger,
                     handler >>

NextTracking ==
  \/ TrackingClassifierProcess
  \/ TrackingBashProcess
  \/ TrackingValidationProcess
  \/ TrackingFormatterProcess
  \/ TrackingContentCollectionProcess
  \/ TrackingAnalyticsProcess
  \/ TrackingDirectResponseProcess
  \/ TrackingCodeAnalyzerProcess
  \/ TrackingCodeFixerProcess

NextOnePass ==
  \/ OnePassClassifierProcess
  \/ OnePassBashProcess
  \/ ValidationProcess
  \/ ValidationConfirm
  \/ ValidationExecute
  \/ ValidationAlternative
  \/ OnePassFormatterProcess
  \/ OnePassContentCollectionProcess
  \/ OnePassAnalyticsProcess
  \/ OnePassDirectResponseProcess
  \/ OnePassCodeAnalyzerProcess

Next ==
  \/ NextOnePass
  \/ NextTracking
  \/ InvalidNode
  \/ Return

Spec == Init /\ [][Next]_vars

\* every call the loop makes returns: the handlers, the model, the operator and
\* the shell all answer, so a step that is possible is taken
FairSpec == Spec /\ WF_vars(Next)

(***************************************************************************)
(* Properties.                                                             *)
(***************************************************************************)
CancelledMessage == "Command execution cancelled by user."

\* the last handler the loop called is the classifier
AfterClassifier ==
  Len(dispatched) > 0 /\ dispatched[Len(dispatched)] = NodeTypeClassifier

\* C1: when the model's routing answer names a node that is empty or outside the
\* closed node set, no handler is called after the classifier that got it, the
\* pointer is not replaced by a node of the set, and the run returns an error.
C1_InvalidRoutingIsError ==
  (route.asked /\ route.answer \notin NodeTypes) =>
    /\ AfterClassifier
    /\ NextNode \notin NodeTypes
    /\ status = "returned" => ret.err # ""

\* C2: without force-approval every command handed to the shell was confirmed by
\* the operator, unless the model check answered, rated it SAFE and the static
\* check found no match.
C2_ConfirmedUnlessRatedSafe ==
  (program = "onepass" /\ ~ForceApproval) =>
    \A i \in 1..Len(shellLog) :
      \/ shellLog[i].check.confirmed
      \/ /\ shellLog[i].check.llm = "ok"
         /\ shellLog[i].check.rated = "SAFE"
         /\ ~shellLog[i].check.static

\* C3: the task history is append-only and order-preserving: it holds exactly the
\* tasks verified completed, in the order of their completion, and a step of the
\* run neither drops nor changes an entry.
C3_HistoryAppendOnly ==
  /\ [](TaskHistory = ledger.verified)
  /\ [][/\ Len(TaskHistory') >= Len(TaskHistory)
        /\ \A i \in 1..Len(TaskHistory) : TaskHistory'[i] = TaskHistory[i]]_vars

C3_Witness ==
  /\ Len(TaskHistory) = 2
  /\ TaskHistory[1].NodeType # TaskHistory[2].NodeType
  /\ TaskHistory[1].Result # TaskHistory[2].Result

\* C4: a classifier step whose task is verified completed and whose global goal
\* is judged met ends with the pointer at terminal and an empty current task,
\* returns an empty sub-goal, asks no routing query and creates no task.
C4_GoalMetStops ==
  (ledger.last.verify = "done" /\ ledger.last.goal = "met") =>
    /\ NextNode = NodeTypeTerminal
    /\ CurrentTask = EmptyTask
    /\ ledger.last.result = ""
    /\ ~ledger.last.queried
    /\ ~ledger.last.made

C4_Witness ==
  /\ ledger.last.verify = "done"
  /\ ledger.last.goal = "met"
  /\ status = "returned"
  /\ ledger.created = 2

\* C5: a classifier step whose task is judged not completed, or completed with
\* the global goal unmet, and whose routing query is answered, ends with the
\* pointer at the answer's node, the current task {that node, the sub-goal, not
\* completed, no result}, and returns the sub-goal.
C5_RoutesToAnswer ==
  ( /\ AfterClassifier
    /\ \/ ledger.last.verify = "notdone"
       \/ ledger.last.verify = "done" /\ ledger.last.goal = "unmet"
    /\ ledger.last.routed ) =>
    /\ NextNode = ledger.last.answer.next_node
    /\ CurrentTask = [NodeType |-> ledger.last.answer.next_node,
                      Goal |-> ledger.last.answer.goal,
                      IsCompleted |-> FALSE, Result |-> ""]
    /\ ledger.last.result = ledger.last.answer.goal
    /\ ledger.last.queried

C5_Witness ==
  /\ AfterClassifier
  /\ ledger.last.verify = "done"
  /\ ledger.last.goal = "unmet"
  /\ ledger.last.routed
  /\ ledger.last.answer.next_node = NodeTypeAnalytics
  /\ ledger.last.answer.goal # ""

\* C6: when the classifier first routes to bash and the bash task is then
\* verified completed and the global goal judged met, the loop stops: the
\* history is that one bash task, the pointer is terminal, the current task is
\* empty, one task was created, and the run returns without an error.
C6_OneBashTaskRun ==
  ( /\ program = "tracking"
    /\ dispatched = << NodeTypeClassifier, NodeTypeBash, NodeTypeClassifier >>
    /\ ledger.last.verify = "done"
    /\ ledger.last.goal = "met" ) =>
    /\ Len(TaskHistory) = 1
    /\ TaskHistory[1].NodeType = NodeTypeBash
    /\ TaskHistory[1].IsCompleted
    /\ NextNode = NodeTypeTerminal
    /\ CurrentTask = EmptyTask
    /\ ledger.created = 1
    /\ status \in {"running", "returned"}
    /\ status = "returned" => ret.err = ""

C6_Witness ==
  /\ program = "tracking"
  /\ dispatched = << NodeTypeClassifier, NodeTypeBash, NodeTypeClassifier >>
  /\ ledger.last.verify = "done"
  /\ ledger.last.goal = "met"
  /\ status = "returned"
  /\ TaskHistory[1].Result = "a.txt"

\* C7: when a handler returns an error the run has returned, with that error, an
\* empty text and no handler called since; no run returns an error and a text.
C7_ErrorMeansNoResult ==
  /\ ret.cause # "" =>
       /\ status = "returned"
       /\ ret.text = ""
       /\ Contains(ret.err, ret.cause)
       /\ Len(dispatched) = ret.at
  /\ (status = "returned" /\ ret.err # "") => ret.text = ""

C7_Witness ==
  /\ status = "returned"
  /\ ret.cause # ""
  /\ FinalResult # ""

\* C8: after a safety prompt answered with anything but y or yes, the command is
\* not handed to the shell, no alternative is asked for, the validator has
\* returned without an error, and the run ends with the cancellation message.
C8_DeclineCancels ==
  vstat.declined =>
    /\ vpc = "idle"
    /\ Len(shellLog) = vstat.mark.shell
    /\ vstat.suggests = vstat.mark.suggests
    /\ ret.cause = ""
    /\ status # "exited"
    /\ status = "running" =>
         /\ NextNode \in {NodeTypeFormatter, NodeTypeTerminal}
         /\ FinalResult = CancelledMessage
    /\ status = "returned" => ret.text = CancelledMessage /\ ret.err = ""

C8_Witness ==
  /\ vstat.declined
  /\ status = "returned"
  /\ Command = "rm -rf /tmp/x"
  /\ check.rated = "DANGEROUS"

\* C9: after a failed execution whose suggestion is empty or the failed command,
\* the operator is not asked, nothing more is executed, and the step ends with
\* the failure text as its result.
C9_UselessSuggestionEndsStep ==
  vstat.useless =>
    /\ vpc = "idle"
    /\ Len(shellLog) = vstat.mark.shell
    /\ vstat.altPrompts = vstat.mark.altPrompts
    /\ vstat.suggests = vstat.mark.suggests
    /\ shellLog[Len(shellLog)].cmd = Command
    /\ ~shellLog[Len(shellLog)].ok
    /\ RawOutput = vstat.errorMessage
    /\ ~Contains(RawOutput, "Alternative command suggestion")
    /\ (status = "running" /\ NextNode = NodeTypeFormatter) => FinalResult = vstat.errorMessage

C9_Witness ==
  /\ vstat.useless
  /\ vstat.suggested = Command
  /\ status = "returned"

\* C10: an accepted alternative becomes the active command and Process starts
\* anew for it: every command handed to the shell was checked in a call of
\* Process of its own (static check, model check, confirmation when asked for),
\* every failed execution was followed by a suggestion, and the validator is
\* never about to execute an alternative it did not start anew for.
C10_AlternativeRunsFullProcedure ==
  program = "onepass" =>
    /\ vstat.accepts > 0 => Command = vstat.accepted
    /\ (vpc = "exec" /\ vstat.accepts > 0) => vstat.entries = vstat.accepts + 1
    /\ \A i \in 1..Len(shellLog) :
         /\ shellLog[i].entries = shellLog[i].depth + 1
         /\ shellLog[i].depth = vstat.accepts => shellLog[i].cmd = Command
         /\ ~ForceApproval =>
              /\ shellLog[i].check.checked
              /\ shellLog[i].check.llm # "skipped"
              /\ shellLog[i].check.static = isDangerousCommand(shellLog[i].cmd)
              /\ shellLog[i].check.prompted => shellLog[i].check.confirmed
    /\ vstat.suggests = Cardinality({i \in 1..Len(shellLog) : ~shellLog[i].ok})

C10_Witness ==
  /\ program = "onepass"
  /\ ~ForceApproval
  /\ Len(shellLog) = 2
  /\ shellLog[2].depth = 1
  /\ shellLog[2].cmd = "python3 app.py"
  /\ shellLog[2].check.confirmed
  /\ ~shellLog[2].ok
  /\ vstat.suggests = 2

\* the static check as a case-insensitive match: a fragment in the lower-cased text
LowerFlagged(command) ==
  \E i \in 1..Len(dangerousPatterns) : Contains(ToLower(command), dangerousPatterns[i])

\* C11: after the operator declined a suggested alternative nothing more is
\* executed, the active command is still the failed one, the validator has
\* returned without an error, and the result of the step is the failure report.
C11_DeclinedAlternativeReportsFailure ==
  vstat.refused =>
    /\ vpc = "idle"
    /\ Len(shellLog) = vstat.mark.shell
    /\ vstat.suggests = vstat.mark.suggests
    /\ vstat.altPrompts = vstat.mark.altPrompts
    /\ Command = shellLog[Len(shellLog)].cmd
    /\ ret.cause = ""
    /\ (status = "running" /\ NextNode = NodeTypeFormatter) => FinalResult = vstat.errorMessage

\* C12: with force-approval the validator runs no static check, asks the model
\* for no rating and asks the operator for no confirmation: the command goes
\* from the entry of Process straight to its execution.
C12_ForceApprovalSkipsChecks ==
  (program = "onepass" /\ ForceApproval) =>
    /\ check = NoCheck
    /\ vstat.safetyPrompts = 0
    /\ vpc # "confirm"
    /\ \A i \in 1..Len(shellLog) : shellLog[i].check = NoCheck

C12_Witness ==
  /\ program = "onepass"
  /\ ForceApproval
  /\ Len(shellLog) = 1
  /\ shellLog[1].cmd = "rm -rf /tmp/x"
  /\ shellLog[1].ok
  /\ status = "returned"

\* C13: without force-approval a command the model rated SAFE and the static
\* check did not flag is never put to the operator: it is handed to the shell
\* unconfirmed.
C13_RatedSafeRunsUnprompted ==
  ( /\ program = "onepass"
    /\ ~ForceApproval
    /\ check.checked
    /\ check.llm = "ok"
    /\ check.rated = "SAFE"
    /\ ~check.static ) =>
    /\ ~check.prompted
    /\ ~check.confirmed
    /\ vpc # "confirm"
    /\ \/ vpc = "exec"
       \/ /\ Len(shellLog) > 0
          /\ shellLog[Len(shellLog)].entries = vstat.entries
          /\ shellLog[Len(shellLog)].cmd = check.command
          /\ shellLog[Len(shellLog)].check = check

C13_Witness ==
  /\ program = "onepass"
  /\ ~ForceApproval
  /\ Len(shellLog) = 1
  /\ shellLog[1].check.assessment = "SAFE [2] read only"
  /\ ~shellLog[1].check.static
  /\ shellLog[1].ok
  /\ vstat.safetyPrompts = 0
  /\ status = "returned"

\* C14: a run that returns after exactly one command was executed, successfully,
\* and (with a tracked goal) the goal was judged met, returns that command's
\* captured output.
C14_ResultIsCommandOutput ==
  ( /\ status = "returned"
    /\ ret.err = ""
    /\ Len(shellLog) = 1
    /\ shellLog[1].ok
    /\ program = "tracking" => ledger.last.goal = "met" ) =>
    ret.text = shellLog[1].out

\* C15: when the command failed with "command not found", the operator accepted
\* a distinct alternative and the alternative succeeded, the validation step
\* ends with the alternative's output and the run returns it.
C15_AlternativeOutputIsResult ==
  ( /\ program = "onepass"
    /\ vpc = "idle"
    /\ Len(shellLog) = 2
    /\ ~shellLog[1].ok
    /\ Contains(shellLog[1].out, "command not found")
    /\ shellLog[2].depth = 1
    /\ shellLog[2].ok ) =>
    /\ RawOutput = shellLog[2].out
    /\ ~Contains(FinalResult, "Command execution failed")
    /\ (status = "returned" /\ ret.err = "") => ret.text = shellLog[2].out

\* C16: a run starts with the pointer at the classifier, an empty history, an
\* empty current task and (where a goal is tracked) the input as the global
\* goal; the first handler the loop calls is the classifier.
C16_StartsAtClassifier ==
  /\ Len(dispatched) > 0 => dispatched[1] = NodeTypeClassifier
  /\ Len(dispatched) = 0 =>
       /\ status = "running"
       /\ NextNode = NodeTypeClassifier
       /\ TaskHistory = << >>
       /\ CurrentTask = EmptyTask
       /\ program = "tracking" => GlobalGoal = Input

C16_Witness ==
  /\ program = "tracking"
  /\ Len(dispatched) = 2
  /\ dispatched[2] = NodeTypeBash
  /\ GlobalGoal = "list files"

\* C17: the static check flags a command exactly when its lower-cased text
\* contains one of the fragments.
C17_StaticCheckIgnoresCase ==
  check.checked => (check.static <=> LowerFlagged(check.command))

\* C18 as stated: a command the static check flags and the model rates SAFE is
\* executed without a confirmation prompt.
C18_FlaggedSafeRunsUnprompted ==
  ( /\ program = "onepass"
    /\ ~ForceApproval
    /\ check.checked
    /\ check.static
    /\ check.llm = "ok"
    /\ check.rated = "SAFE" ) =>
    /\ ~check.prompted
    /\ vpc # "confirm"

\* C18, amended: a command the static check flags and the model rates SAFE is
\* put to the operator, and reaches the shell only when confirmed.
C18_FlaggedSafeIsConfirmed ==
  (program = "onepass" /\ ~ForceApproval) =>
    /\ (check.checked /\ check.static /\ check.llm = "ok" /\ check.rated = "SAFE")
         => check.prompted
    /\ \A i \in 1..Len(shellLog) :
         (shellLog[i].check.static /\ shellLog[i].check.rated = "SAFE")
           => shellLog[i].check.confirmed

C18_Witness ==
  /\ program = "onepass"
  /\ ~ForceApproval
  /\ Len(shellLog) = 1
  /\ shellLog[1].cmd = "rm -rf /tmp/x"
  /\ shellLog[1].check.static
  /\ shellLog[1].check.rated = "SAFE"
  /\ shellLog[1].check.confirmed

\* C19: the parsed rating follows the text: SAFE with a score of 1 to 3 is safe,
\* DANGEROUS with a score of 7 to 10 is not, and a text whose score is outside
\* 1 to 10 is rejected, so it is not taken as safe.
C19_RatingFollowsScore ==
  check.llm = "ok" =>
    /\ check.rated = "SAFE" => check.safe
    /\ check.rated = "DANGEROUS" => ~check.safe
    /\ ScoreOutOfRange(check.assessment) => ~check.safe

\* C20: without force-approval a command whose assessment is not a tag with a
\* score of that tag's band rated SAFE reaches the shell only when confirmed.
C20_MisshapenRatingIsConfirmed ==
  (program = "onepass" /\ ~ForceApproval) =>
    \A i \in 1..Len(shellLog) :
      (shellLog[i].check.llm = "ok" /\ shellLog[i].check.rated # "SAFE")
        => shellLog[i].check.confirmed

C22_ErrorNamesFailedNode ==
  (status = "returned" /\ handler.failed) =>
    ret.err = "error in node " \o handler.node \o ": " \o ret.cause

\* C23: no run returns an error because a command ran and exited non-zero.
C23_ExitFailureNeverAborts ==
  (status = "returned" /\ ret.err # "") => ~Contains(ret.cause, "exit status")

\* C24: a handler that returned without an error assigned the pointer during
\* that call.
C24_SuccessAssignsPointer ==
  (handler.node # "" /\ ~handler.failed) => handler.assigned

\* C25: no node is dispatched twice in a row.
C25_NoNodeTwiceInARow ==
  \A i \in 1..(Len(dispatched) - 1) : dispatched[i] # dispatched[i + 1]

\* C26: the loop counts nothing: while the model never reports a task done, a
\* run ends only with an error, with the exit of the process, or because a
\* routing answer named the terminal node.
C26_NoIterationCeiling ==
  (program = "tracking" /\ ledger.verified = << >> /\ status # "running") =>
    \/ ret.err # ""
    \/ status = "exited"
    \/ route.answer = NodeTypeTerminal

C26_Witness ==
  /\ program = "tracking"
  /\ status = "running"
  /\ Len(dispatched) = MaxDispatch
  /\ ledger.verified = << >>
  /\ ledger.created > MaxDispatch \div 2
  /\ ledger.last.verify = "notdone"
  /\ NextNode \in NodeTypes \ {NodeTypeTerminal, NodeTypeClassifier}

C28_MissingKeyAbortsAtFirstCall ==
  (program = "onepass" /\ ApiKey = "") =>
    /\ shellLog = << >>
    /\ Command = ""
    /\ Len(dispatched) <= 1
    /\ Len(dispatched) = 0 => status = "running"
    /\ Len(dispatched) = 1 =>
         /\ status = "returned"
         /\ handler.failed
         /\ Contains(ret.err, "API key not set")

C28_Witness ==
  /\ program = "onepass"
  /\ ApiKey = ""
  /\ status = "returned"
  /\ ret.err = "error in node classifier: classifier LLM error: API key not set"
  /\ dispatched = << NodeTypeClassifier >>

\* C29: without force-approval a command whose model check failed with an error
\* reaches the shell only when the operator confirmed it.
C29_FailedCheckNeedsConfirmation ==
  (program = "onepass" /\ ~ForceApproval) =>
    \A i \in 1..Len(shellLog) :
      shellLog[i].check.llm = "error" => shellLog[i].check.confirmed

\* history: x is an element of the sequence seq
InSeq(x, seq) == \E i \in 1..Len(seq) : seq[i] = x

\* C30: in a classifier step the queries come in the order verification, goal
\* check, routing; verification is asked exactly when there is a current task;
\* the goal check exactly when the task was verified completed, and the history
\* it is shown ends with that task; routing only when the goal was not judged
\* met; without a current task the step asks the routing query alone and
\* leaves the history as it was.
C30_QueriesOrderedAndConditional ==
  LET s == ledger.last
      hadTask == s.before.task.NodeType # ""
  IN  Len(s.calls) > 0 =>
        /\ s.calls \in { << "route" >>, << "verify" >>, << "verify", "route" >>,
                         << "verify", "goal" >>, << "verify", "goal", "route" >> }
        /\ InSeq("verify", s.calls) <=> hadTask
        /\ InSeq("goal", s.calls) <=> s.verify = "done"
        /\ InSeq("goal", s.calls) =>
             /\ Len(s.shown) = Len(s.before.history) + 1
             /\ s.shown[Len(s.shown)] = [s.before.task EXCEPT !.IsCompleted = TRUE]
             /\ TaskHistory = s.shown
        /\ InSeq("route", s.calls) => s.goal \in {"none", "unmet"}
        /\ s.goal = "unmet" => InSeq("route", s.calls)
        /\ ~hadTask => (s.calls = << "route" >> /\ TaskHistory = s.before.history)

C30_Witness ==
  /\ ledger.last.calls = << "verify", "goal", "route" >>
  /\ Len(ledger.last.shown) = 2
  /\ ledger.last.made
  /\ status = "running"


(***************************************************************************)
(* The failure classification of suggestAlternativeCommand on its own: the  *)
(* validator holds the text of a failed execution and classifies it.       *)
(***************************************************************************)
\* what a shell may print: the markers of validation.go 128-141, two of them in
\* another letter case, and a line without a marker
ErrorFragments ==
  {"command not found", "permission denied", "No such file", "not exist",
   "not a directory", "invalid option", "invalid argument", "syntax error",
   "Permission Denied", "no such file", "cat: notes"}

RECURSIVE TextsOf(_)
TextsOf(n) ==
  IF n = 0 THEN {""}
  ELSE LET shorter == TextsOf(n - 1)
       IN  shorter \cup {IF t = "" THEN f ELSE t \o ": " \o f : t \in shorter, f \in ErrorFragments}

ErrorTexts == TextsOf(MaxFragments)

\* CombinedOutput of a command that printed out and exited with status 1
FailedWith(out) == [out |-> out, err |-> "exit status 1", isExit |-> TRUE, code |-> "1"]

\* the validator, run with force-approval, after the execution of "cat notes"
\* failed and before suggestAlternativeCommand has classified the failure text
ClassifyInit ==
  /\ program = "onepass"
  /\ ForceApproval = TRUE
  /\ Input \in Inputs
  /\ GlobalGoal = ""
  /\ NextNode = NodeTypeValidation
  /\ Command = "cat notes"
  /\ FinalResult = ""
  /\ RawOutput = ""
  /\ CurrentTask = EmptyTask
  /\ TaskHistory = << >>
  /\ status = "running"
  /\ ret = [text |-> "", err |-> "", cause |-> "", at |-> 0]
  /\ vpc = "exec"
  /\ alternativeCommand = ""
  /\ check = NoCheck
  /\ dispatched = << NodeTypeClassifier, NodeTypeBash, NodeTypeValidation >>
  /\ \E t \in ErrorTexts :
       /\ shellLog = << [cmd |-> "cat notes", depth |-> 0, entries |-> 1, check |-> NoCheck,
                          ok |-> FALSE, out |-> t] >>
       /\ vstat = [NoVstat EXCEPT !.entries = 1, !.errorMessage = ErrorMessage(FailedWith(t))]
  /\ route = [asked |-> FALSE, answer |-> ""]
  /\ ledger = NoLedger
  /\ ApiKey = "sk-live"
  /\ handler = [node |-> NodeTypeBash, assigned |-> TRUE, failed |-> FALSE]

\* validation.go 126-141: errorType is computed from the failure text
ClassifyFailure ==
  /\ vstat.errorType = ""
  /\ vstat' = [vstat EXCEPT !.errorType = errorType(vstat.errorMessage)]
  /\ UNCHANGED << program, ForceApproval, ApiKey, Input, Command, NextNode, FinalResult,
                  RawOutput, CurrentTask, TaskHistory, GlobalGoal, status, ret, vpc,
                  alternativeCommand, check, dispatched, shellLog, route, ledger, handler >>

ClassifySpec == ClassifyInit /\ [][ClassifyFailure]_vars

\* the classes in the order of their tests, each with its markers
ClassOrder ==
  << [class |-> "command_not_found", marks |-> {"command not found"}],
     [class |-> "permission_denied", marks |-> {"permission denied"}],
     [class |-> "file_not_found", marks |-> {"No such file", "not exist"}],
     [class |-> "not_a_directory", marks |-> {"not a directory"}],
     [class |-> "invalid_option", marks |-> {"invalid option", "invalid argument"}],
     [class |-> "syntax_error", marks |-> {"syntax error"}] >>

ClassHits(text) ==
  {i \in DOMAIN ClassOrder : \E m \in ClassOrder[i].marks : Contains(text, m)}

ClassByOrder(text) ==
  IF ClassHits(text) = {} THEN "unknown"
  ELSE ClassOrder[CHOOSE i \in ClassHits(text) : \A j \in ClassHits(text) : i <= j].class

\* C31: a failed execution is classified by the first class, in the fixed order
\* command_not_found, permission_denied, file_not_found, not_a_directory,
\* invalid_option, syntax_error, one of whose markers occurs in the failure text
\* exactly as written (letter case included), and as unknown when none occurs
C31_FirstMarkerClassifies ==
  vstat.errorType # "" => vstat.errorType = ClassByOrder(vstat.errorMessage)

\* a text with two markers, the later class written first, has been classified
C31_Witness ==
  /\ shellLog[1].out = "permission denied: command not found"
  /\ vstat.errorType = "command_not_found"

\* a text whose only marker differs in letter case has been classified unknown
C31_WitnessCase ==
  /\ shellLog[1].out = "Permission Denied"
  /\ vstat.errorType = "unknown"



\* C32: every entry of the task history has its completion flag set; a classifier
\* step that judged the current task not completed leaves the history as it was,
\* and when it goes on to route, the task is replaced by the new one
C32_OnlyCompletedTasksRecorded ==
  program = "tracking" =>
    /\ \A i \in DOMAIN TaskHistory : TaskHistory[i].IsCompleted
    /\ ledger.last.verify = "notdone" =>
          /\ TaskHistory = ledger.last.before.history
          /\ ledger.last.goal = "none"
          /\ ledger.last.err = "" =>
                /\ ledger.last.made
                /\ handler.node = NodeTypeClassifier =>
                      CurrentTask = NewTask(ledger.last.answer.next_node, ledger.last.answer.goal)

\* a history with an entry, and a later task judged not completed and replaced
C32_Witness ==
  /\ program = "tracking"
  /\ Len(TaskHistory) >= 1
  /\ ledger.last.verify = "notdone"
  /\ ledger.last.before.task.NodeType # ""
  /\ ledger.last.made
  /\ handler.node = NodeTypeClassifier
  /\ CurrentTask # ledger.last.before.task



\* C33: ClassifierNode.Process assigns no field of the State other than the
\* pointer, the current task and the task history: the input text, the global
\* goal, the working directory, the command text, the raw output and the final
\* result are as before the call, whether it returned an error or not
C33_ClassifierWritesThreeFields ==
  program = "tracking" =>
    ledger.last.wrote \subseteq {"NextNode", "CurrentTask", "TaskHistory"}

\* a successful call that assigned all three fields
C33_Witness ==
  /\ program = "tracking"
  /\ handler = [node |-> NodeTypeClassifier, assigned |-> TRUE, failed |-> FALSE]
  /\ ledger.last.wrote = {"NextNode", "CurrentTask", "TaskHistory"}
  /\ ledger.last.before.history # TaskHistory

\* a failed call that had assigned the current task and the history
C33_WitnessFailed ==
  /\ program = "tracking"
  /\ handler.node = NodeTypeClassifier /\ handler.failed
  /\ ledger.last.wrote = {"CurrentTask", "TaskHistory"}



\* C34: in the task-tracking graph the pointer is classifier after the handler of
\* any other node returned, whatever the handler left in it; so no two handlers
\* other than the classifier's are called in a row, and the pointer is terminal
\* only after a classifier step in which the goal was judged met or the routing
\* answer named terminal
C34_EveryHandlerRoutesBack ==
  program = "tracking" =>
    /\ (handler.node \notin {"", NodeTypeClassifier} /\ status # "exited") =>
          NextNode = NodeTypeClassifier
    /\ \A i \in 1..(Len(dispatched) - 1) :
          dispatched[i] # NodeTypeClassifier => dispatched[i + 1] = NodeTypeClassifier
    /\ NextNode = NodeTypeTerminal =>
          /\ handler.node = NodeTypeClassifier
          /\ dispatched[Len(dispatched)] = NodeTypeClassifier
          /\ \/ ledger.last.goal = "met"
             \/ ledger.last.made /\ ledger.last.answer.next_node = NodeTypeTerminal
    /\ (status = "returned" /\ ret.err = "") => NextNode = NodeTypeTerminal

\* a handler left terminal in the pointer and the loop goes on at the classifier
C34_Witness ==
  /\ program = "tracking"
  /\ status = "running"
  /\ handler.node = NodeTypeDirectResponse
  /\ ledger.left = NodeTypeTerminal
  /\ NextNode = NodeTypeClassifier

\* the run has ended after the routing answer named terminal
C34_WitnessRouted ==
  /\ program = "tracking"
  /\ status = "returned" /\ ret.err = ""
  /\ Len(dispatched) >= 3
  /\ ledger.last.goal # "met"
  /\ ledger.last.answer.next_node = NodeTypeTerminal



\* the pointer does not name a node whose handler was called before the last one,
\* and names the last one only while its handler runs or after it failed
PointerAhead ==
  /\ \A i \in 1..(Len(dispatched) - 1) : dispatched[i] # NextNode
  /\ (Len(dispatched) > 0 /\ NextNode = dispatched[Len(dispatched)]) =>
        \/ vpc # "idle"
        \/ status = "returned" /\ handler.failed

OnePassBounded ==
  program = "onepass" =>
    /\ Len(dispatched) <= 4
    /\ \A i \in DOMAIN dispatched : (dispatched[i] = NodeTypeClassifier) <=> (i = 1)
    /\ status = "returned" => Len(dispatched) >= 1
    /\ \A i, j \in DOMAIN dispatched : dispatched[i] = dispatched[j] => i = j
    /\ PointerAhead
    /\ NextNode \in NodeTypes
    /\ ~ (status = "returned" /\ HasPrefix(ret.err, "invalid node type"))

\* C35: in the one-pass graph the classifier's handler is called exactly once, as
\* the first one, no handler sets the pointer back to an earlier node, at most
\* four handlers are called, the pointer always names a known node so that the
\* invalid-node branch is never taken, and, every call returning, the run ends
C35_OnePassTerminates ==
  /\ []OnePassBounded
  /\ <>(program = "onepass" => status = "returned")

\* a run of four handlers has returned its result
C35_Witness ==
  /\ program = "onepass"
  /\ status = "returned" /\ ret.err = ""
  /\ dispatched = << NodeTypeClassifier, NodeTypeBash, NodeTypeValidation, NodeTypeFormatter >>
  /\ NextNode = NodeTypeTerminal



\* the validator's Process has returned to the loop
ValidatorReturned ==
  /\ program = "onepass"
  /\ Len(dispatched) > 0
  /\ dispatched[Len(dispatched)] = NodeTypeValidation
  /\ vpc = "idle"

\* C36: whenever the validator's Process returns, it returns no error and the
\* pointer is formatter; no run ends with an error of the validator, also when
\* the model's safety check or its suggestion of an alternative failed or the
\* command could not be started
C36_ValidatorAlwaysSucceeds ==
  /\ ValidatorReturned =>
        /\ status = "running"
        /\ NextNode = NodeTypeFormatter
        /\ handler = [node |-> NodeTypeValidation, assigned |-> TRUE, failed |-> FALSE]
  /\ (program = "onepass" /\ handler.node = NodeTypeValidation) => ~handler.failed
  /\ (program = "onepass" /\ status = "returned" /\ ret.err # "") =>
        dispatched[Len(dispatched)] # NodeTypeValidation

\* the validator returned after the safety check failed, the command could not
\* be started and the call for a suggestion failed
C36_Witness ==
  /\ ValidatorReturned
  /\ check.llm = "error"
  /\ Len(shellLog) = 1 /\ ~shellLog[1].ok
  /\ Contains(vstat.errorMessage, "fork/exec")
  /\ vstat.suggests = 1 /\ vstat.suggested = "" /\ ~vstat.useless
  /\ NextNode = NodeTypeFormatter



\* C37: with force-approval set the safety prompt is never shown, yet a command
\* runs at retry depth d only after d alternative prompts were answered, and as
\* long as every alternative prompt so far was accepted the last answer was an
\* explicit y or yes; the command run at the latest depth is the suggestion
\* that was accepted
C37_ForcedRunStillAsksForAlternative ==
  (program = "onepass" /\ ForceApproval) =>
    /\ vstat.safetyPrompts = 0
    /\ vstat.accepts <= vstat.altPrompts
    /\ (vstat.accepts > 0 /\ vstat.altPrompts = vstat.accepts) => ~vstat.refused
    /\ \A i \in DOMAIN shellLog :
          /\ shellLog[i].depth <= vstat.accepts
          /\ (shellLog[i].depth > 0 /\ shellLog[i].depth = vstat.accepts) =>
                shellLog[i].cmd = vstat.accepted

\* with force-approval set, an alternative has run after the operator said yes
C37_Witness ==
  /\ program = "onepass" /\ ForceApproval
  /\ Len(shellLog) = 2
  /\ shellLog[2].depth = 1 /\ shellLog[2].check = NoCheck
  /\ shellLog[2].cmd = vstat.accepted
  /\ vstat.altPrompts = 1 /\ ~vstat.refused

\* with force-approval set, the operator declined and the alternative did not run
C37_WitnessDeclined ==
  /\ program = "onepass" /\ ForceApproval
  /\ vpc = "idle"
  /\ vstat.altPrompts = 1 /\ vstat.refused /\ vstat.accepts = 0
  /\ Len(shellLog) = 1



\* the command text contains one of the four fragments
HasFragment(command) ==
  \E f \in {"ls -la", "df -h", "uname -a", "free -h"} : Contains(command, f)

\* the commands the one-pass validator can hold: none yet, a trimmed answer of
\* the model, a trimmed suggestion
OnePassCommands ==
  {""} \cup {TrimSpace(a) : a \in BashAnswers} \cup {TrimSpace(a) : a \in Suggestions("")}

\* those of them without any of the four fragments
PlainCommands == {c \in OnePassCommands : ~HasFragment(c)}

\* the canned text of the first of the fragments, in the order ls -la, df -h,
\* uname -a, free -h, that the command contains
CannedText(command) ==
  IF Contains(command, "ls -la") THEN simulatedOutputs[1]
  ELSE IF Contains(command, "df -h") THEN simulatedOutputs[2]
  ELSE IF Contains(command, "uname -a") THEN simulatedOutputs[3]
  ELSE simulatedOutputs[4]

\* C38: in the one-pass validator a command that contains one of the fragments
\* "ls -la", "df -h", "uname -a", "free -h" never reaches the shell, whatever
\* else it contains: the validator runs no check on it and shows no prompt for
\* it, and returns with the canned text of the first fragment, in that order,
\* that the command contains
C38_SimulatedNeverReachShell ==
  program = "onepass" =>
    /\ \A i \in DOMAIN shellLog : shellLog[i].cmd \in PlainCommands
    /\ Command \notin PlainCommands =>
          /\ vpc \in {"idle", "entry", "exec"}
          /\ vpc = "exec" => check = NoCheck
          /\ \A i \in DOMAIN shellLog : shellLog[i].depth < vstat.accepts
          /\ vstat.accepts = 0 => vstat.safetyPrompts = 0 /\ vstat.altPrompts = 0
          /\ ValidatorReturned =>
                /\ check = NoCheck
                /\ RawOutput = CannedText(Command)
                /\ FinalResult = "Command output:\n" \o CannedText(Command)

\* without force-approval, a command with two fragments and a destructive part
\* has been answered with the canned text of ls -la
C38_Witness ==
  /\ ValidatorReturned
  /\ ~ForceApproval
  /\ Command = "free -h; rm -rf /; ls -la"
  /\ isDangerousCommand(Command)
  /\ RawOutput = simulatedOutputs[1]
  /\ shellLog = << >>
  /\ vstat.safetyPrompts = 0



\* the command holds no blocked fragment once lower-cased and its first
\* whitespace-separated token is in the allow-list
Permitted(cmd) ==
  /\ \A i \in 1..Len(blockedPatterns) : ~Contains(ToLower(cmd), blockedPatterns[i])
  /\ FirstField(cmd) \in allowedCommands

\* the answers of the model that are permitted commands
PermittedCommands == {a.command : a \in {b \in TrackingBashAnswers : Permitted(b.command)}}

\* the calls of the bash node so far
BashCalls == Cardinality({i \in DOMAIN dispatched : dispatched[i] = NodeTypeBash})

\* C39: the bash node of the task-tracking graph starts a shell only for a
\* command without blocked fragment (compared in lower case) and with an allowed
\* first token; for any other command the model answers, the empty one
\* included, its Process returns an error, has started nothing and has assigned
\* neither the current task's result nor the pointer
C39_OnlyPermittedCommandsSpawn ==
  program = "tracking" =>
    /\ \A i \in DOMAIN shellLog : shellLog[i].cmd \in PermittedCommands
    /\ Len(shellLog) <= BashCalls
    /\ (handler.node = NodeTypeBash /\ ledger.bash.answered /\ ledger.bash.command \notin PermittedCommands) =>
          /\ handler.failed /\ ~handler.assigned
          /\ status = "returned"
          /\ HasPrefix(ret.cause, "command validation failed: ")
          /\ Len(shellLog) = BashCalls - 1
          /\ ledger.bash.wrote = {}
          /\ ledger.left = NodeTypeBash

\* a command whose blocked fragment shows only in lower case has been refused
C39_Witness ==
  /\ program = "tracking"
  /\ handler.node = NodeTypeBash /\ handler.failed
  /\ ledger.bash.command = "echo SUDO"
  /\ ret.cause = "command validation failed: command contains dangerous pattern: sudo"
  /\ shellLog = << >>

\* the empty command has been refused
C39_WitnessEmpty ==
  /\ program = "tracking"
  /\ handler.node = NodeTypeBash /\ handler.failed
  /\ ledger.bash.answered /\ ledger.bash.command = ""
  /\ ret.cause = "command validation failed: empty command"

\* a permitted command has run and the handler assigned result and pointer
C39_WitnessRan ==
  /\ program = "tracking"
  /\ handler = [node |-> NodeTypeBash, assigned |-> TRUE, failed |-> FALSE]
  /\ ledger.bash.command = "ls -la"
  /\ ledger.bash.wrote = {"CurrentTask", "NextNode"}
  /\ Len(shellLog) = 1


=============================================================================
